---- MODULE Spec2Model ----
(***************************************************************************)
(* Model of batch_inference.py (LatentSync batch driver): discovery of the *)
(* video and audio files, planning of one job per audio file, the call of  *)
(* the external inference command per job, and the final summary.          *)
(*                                                                         *)
(* Strings are sequences of one-token strings, Optional[int] values are    *)
(* sets ({} is None, {n} is the integer n).                                *)
(***************************************************************************)
EXTENDS Integers, Sequences, FiniteSets, TLC

(* ---------------------------- bounds ----------------------------------- *)
\* largest --max_combinations value tried (the audio directory holds <= 3)
MaxCombinations == 3
\* largest --random_seed value tried
MaxSeed == 0
\* last wall-clock second the model distinguishes
MaxClock == 1

(* --------------------------- Optional[int] ----------------------------- *)
None == {}
Some(n) == {n}
Val(x) == CHOOSE v \in x : TRUE
\* Python truthiness of an Optional[int]: None and 0 are falsy
Truthy(x) == x # None /\ Val(x) # 0

Range(s) == {s[i] : i \in 1..Len(s)}
Min(a, b) == IF a <= b THEN a ELSE b

(* ------------------------------ strings -------------------------------- *)
\* the tokens that occur in paths, in code point order
Alphabet == <<"-", ".", "/", "0", "1", "2", "3", "4", "5", "6", "7", "8", "9",
              "A", "O", "V", "_", "a", "b", "mp4", "txt", "wav">>
Ord(c) == CHOOSE i \in 1..Len(Alphabet) : Alphabet[i] = c

\* s < t in Python's string order
RECURSIVE StrLess(_, _)
StrLess(s, t) ==
    IF t = <<>> THEN FALSE
    ELSE IF s = <<>> THEN TRUE
    ELSE IF Head(s) = Head(t) THEN StrLess(Tail(s), Tail(t))
    ELSE Ord(Head(s)) < Ord(Head(t))

\* sorted(S) for a set of distinct strings
RECURSIVE Sorted(_)
Sorted(S) ==
    IF S = {} THEN <<>>
    ELSE LET m == CHOOSE x \in S : \A y \in S \ {x} : StrLess(x, y)
         IN  <<m>> \o Sorted(S \ {m})

DigitChars == <<"0", "1", "2", "3", "4", "5", "6", "7", "8", "9">>

RECURSIVE Digits(_)
Digits(n) == IF n < 10 THEN <<DigitChars[n + 1]>>
             ELSE Digits(n \div 10) \o <<DigitChars[(n % 10) + 1]>>

\* str(n) for an int
Str(n) == IF n < 0 THEN <<"-">> \o Digits(0 - n) ELSE Digits(n)

\* index of the last occurrence of c in s, 0 when absent
RECURSIVE LastIndex(_, _)
LastIndex(s, c) ==
    IF s = <<>> THEN 0
    ELSE IF s[Len(s)] = c THEN Len(s)
    ELSE LastIndex(SubSeq(s, 1, Len(s) - 1), c)

\* Path(p).name: the final path component
PathName(p) == SubSeq(p, LastIndex(p, "/") + 1, Len(p))

\* Path(p).stem: the final component without its last suffix
Stem(p) ==
    LET name == PathName(p)
        i == LastIndex(name, ".")
    IN  IF i > 1 /\ i < Len(name) THEN SubSeq(name, 1, i - 1) ELSE name

(* ---------------------------- file system ------------------------------ *)
VideoDir == <<"V">>
AudioDir == <<"A">>
OutputDir == <<"O">>

\* directory entries the model draws the directory listings from
VideoDirEntries == { <<"a", ".", "mp4">>, <<"a", "_", "a", ".", "mp4">>,
                     <<"a", ".", "txt">> }
AudioDirEntries == { <<"a", ".", "wav">>, <<"a", "_", "a", ".", "wav">>,
                     <<"b", ".", "wav">> }

\* a directory is absent, or present with a set of entries
Directories(entries) ==
    {[exists |-> FALSE, entries |-> {}]} \cup
    {[exists |-> TRUE, entries |-> E] : E \in SUBSET entries}

\* dir / name as a string
JoinPath(dir, name) == dir \o <<"/">> \o name

\* Path.glob("*.<ext>"): the entries whose name ends in ".<ext>"
Glob(dir, d, ext) ==
    {JoinPath(dir, n) : n \in {e \in d.entries :
        Len(e) >= 2 /\ e[Len(e)] = ext /\ e[Len(e) - 1] = "."}}

get_files(dir, d, ext) == IF d.exists THEN Sorted(Glob(dir, d, ext)) ELSE <<>>
get_video_files(d) == get_files(VideoDir, d, "mp4")
get_audio_files(d) == get_files(AudioDir, d, "wav")

(* ------------------------------ argparse ------------------------------- *)
\* action="store_true", default=True: the value is True with and without
\* the flag on the command line
ParseAllowRepeatVideos(flagGiven) == IF flagGiven THEN TRUE ELSE TRUE

CommandLines ==
    [max_combinations : {None} \cup {Some(n) : n \in (0 - 1)..MaxCombinations},
     random_seed : {None} \cup {Some(n) : n \in (0 - 1)..MaxSeed},
     allow_repeat_videos_flag : BOOLEAN]

parse_args(cl) ==
    [max_combinations |-> cl.max_combinations,
     random_seed |-> cl.random_seed,
     allow_repeat_videos |-> ParseAllowRepeatVideos(cl.allow_repeat_videos_flag)]

NoArgs == [max_combinations |-> None, random_seed |-> None,
           allow_repeat_videos |-> TRUE]

VARIABLES argv, fs, args, pc, video_files, audio_files, output_dir_created,
          total_combinations, successful, failed, combination_count,
          audio_files_to_process, used_videos, idx, jobs, clock, exception,
          summary_printed

vars == <<argv, fs, args, pc, video_files, audio_files, output_dir_created,
          total_combinations, successful, failed, combination_count,
          audio_files_to_process, used_videos, idx, jobs, clock, exception,
          summary_printed>>

(* ------------------------------ random --------------------------------- *)
\* the values of random.randint the model tries
RandintProbes == {0, 1, 999999, 1000000}
\* random.randint(lo, hi): some integer of lo..hi
randint(lo, hi) == {n \in RandintProbes : lo <= n /\ n <= hi}

\* random.sample(population, k) raises ValueError unless 0 <= k <= len
SampleRaises(population, k) == k < 0 \/ k > Len(population)
\* random.choices in place of random.sample: positions may repeat
sample_with_replacement(population, k) ==
    {[i \in 1..k |-> population[f[i]]] : f \in [1..k -> 1..Len(population)]}

\* random.sample(population, k): k elements at distinct positions, any order
sample(population, k) ==
    {[i \in 1..k |-> population[f[i]]] :
        f \in {g \in [1..k -> 1..Len(population)] :
                  \A i, j \in 1..k : i # j => g[i] # g[j]}}

\* random.choice(seq): any element
choice(seq) == Range(seq)

(* ------------------------------- main ---------------------------------- *)
\* the audio list is not tested
NoInputFiles_videos_only(videos, audios) == videos = <<>>

\* line 130-136: the run stops before planning when a list is empty
NoInputFiles(videos, audios) == videos = <<>> \/ audios = <<>>

\* lines 143-145
TotalCombinations(audios, max_combinations) ==
    IF Truthy(max_combinations)
    THEN Min(Len(audios), Val(max_combinations))
    ELSE Len(audios)

\* "is not None" in place of truthiness: a cap of 0 samples no audio file
CapApplies_is_not_None(audios, max_combinations) ==
    max_combinations # None /\ Val(max_combinations) < Len(audios)

\* line 161: the audio list is sampled down to max_combinations
CapApplies(audios, max_combinations) ==
    Truthy(max_combinations) /\ Val(max_combinations) < Len(audios)

\* line 171: the used-video set is cleared at the top of an iteration
ShouldClear(allow_repeat, used, videos) ==
    ~allow_repeat /\ Cardinality(used) >= Len(videos)

\* the used set is not consulted
AvailableVideos_ignoring_used(videos, used) == videos

\* line 178
AvailableVideos(videos, used) == SelectSeq(videos, LAMBDA v : v \notin used)

\* datetime.now().strftime("%Y%m%d_%H%M%S") at second t of the day
Pad2(n) == IF n < 10 THEN <<"0">> \o Digits(n) ELSE Digits(n)
strftime(t) ==
    <<"2", "0", "2", "6", "1", "1", "0", "4", "_">> \o
    Pad2(t \div 3600) \o Pad2((t \div 60) % 60) \o Pad2(t % 60)

\* lines 189-193
OutputPath(video, audio, t) ==
    JoinPath(OutputDir,
             Stem(video) \o <<"_">> \o Stem(audio) \o <<"_">> \o strftime(t)
                 \o <<".", "mp4">>)

\* "if not seed" in place of "if seed is None": a seed of 0 is redrawn
JobSeeds_falsy(seed) == IF ~Truthy(seed) THEN randint(1, 999999) ELSE {Val(seed)}

\* run_inference, lines 49-50: the seeds a job may run with
JobSeeds(seed) == IF seed = None THEN randint(1, 999999) ELSE {Val(seed)}

\* what subprocess.run(cmd, check=True) can do
Outcomes == {"exit_zero", "exit_nonzero", "cannot_launch"}

\* run_inference, lines 76-83: the returned flag, or the exception that
\* leaves run_inference (only CalledProcessError is caught)
RunResult(outcome) ==
    CASE outcome = "exit_zero" -> [raised |-> "None", success |-> TRUE]
      [] outcome = "exit_nonzero" -> [raised |-> "None", success |-> FALSE]
      [] OTHER -> [raised |-> "FileNotFoundError", success |-> FALSE]

\* a failure is not counted
CountResult_success_only(success, s, f) ==
    IF success THEN [successful |-> s + 1, failed |-> f]
    ELSE [successful |-> s, failed |-> f]

\* lines 212-215
CountResult(success, s, f) ==
    IF success THEN [successful |-> s + 1, failed |-> f]
    ELSE [successful |-> s, failed |-> f + 1]

FileSystems ==
    [video_dir : Directories(VideoDirEntries),
     audio_dir : Directories(AudioDirEntries)]

InitRest ==
    /\ video_files = <<>>
    /\ audio_files = <<>>
    /\ output_dir_created = FALSE
    /\ total_combinations = 0
    /\ successful = 0
    /\ failed = 0
    /\ combination_count = 0
    /\ audio_files_to_process = <<>>
    /\ used_videos = {}
    /\ idx = 0
    /\ jobs = <<>>
    /\ clock = 0
    /\ exception = "None"
    /\ summary_printed = FALSE

Init ==
    /\ argv \in CommandLines
    /\ fs \in FileSystems
    /\ args = NoArgs
    /\ pc = "parse"
    /\ InitRest

\* line 110-115
ParseArgs ==
    /\ pc = "parse"
    /\ args' = parse_args(argv)
    /\ pc' = "scan"
    /\ UNCHANGED <<argv, fs, video_files, audio_files, output_dir_created,
                   total_combinations, successful, failed, combination_count,
                   audio_files_to_process, used_videos, idx, jobs, clock,
                   exception, summary_printed>>

\* lines 117-136
Scan ==
    /\ pc = "scan"
    /\ video_files' = get_video_files(fs.video_dir)
    /\ audio_files' = get_audio_files(fs.audio_dir)
    /\ pc' = IF NoInputFiles(video_files', audio_files') THEN "returned"
             ELSE "plan"
    /\ UNCHANGED <<argv, fs, args, output_dir_created, total_combinations,
                   successful, failed, combination_count,
                   audio_files_to_process, used_videos, idx, jobs, clock,
                   exception, summary_printed>>

\* lines 138-167
Plan ==
    /\ pc = "plan"
    /\ output_dir_created' = TRUE
    /\ successful' = 0
    /\ failed' = 0
    /\ combination_count' = 0
    /\ used_videos' = {}
    /\ idx' = 0
    /\ IF CapApplies(audio_files, args.max_combinations)
       THEN IF SampleRaises(audio_files, Val(args.max_combinations))
            THEN /\ exception' = "ValueError"
                 /\ pc' = "crashed"
                 /\ audio_files_to_process' = audio_files
                 /\ total_combinations' =
                        TotalCombinations(audio_files, args.max_combinations)
            ELSE /\ audio_files_to_process' \in
                        sample(audio_files, Val(args.max_combinations))
                 /\ total_combinations' = Len(audio_files_to_process')
                 /\ pc' = "loop"
                 /\ UNCHANGED exception
       ELSE /\ audio_files_to_process' = audio_files
            /\ total_combinations' = Len(audio_files_to_process')
            /\ pc' = "loop"
            /\ UNCHANGED exception
    /\ UNCHANGED <<argv, fs, args, video_files, audio_files, jobs, clock,
                   summary_printed>>

\* lines 169-197: the next audio file gets its video and its output path
SelectVideo ==
    /\ pc = "loop"
    /\ idx < Len(audio_files_to_process)
    /\ LET audio_file == audio_files_to_process[idx + 1]
           cleared == ShouldClear(args.allow_repeat_videos, used_videos,
                                  video_files)
           used1 == IF cleared THEN {} ELSE used_videos
           available == AvailableVideos(video_files, used1)
           \* lines 179-182
           recleared == ~args.allow_repeat_videos /\ available = <<>>
           candidates == IF args.allow_repeat_videos \/ recleared
                         THEN video_files ELSE available
           used2 == IF recleared THEN {} ELSE used1
       IN  \E sampled_video \in choice(candidates) :
           \E now \in clock..Min(clock + 1, MaxClock) :
             /\ used_videos' = IF args.allow_repeat_videos THEN used2
                               ELSE used2 \cup {sampled_video}
             /\ clock' = now
             /\ jobs' = Append(jobs,
                   [audio |-> audio_file, video |-> sampled_video,
                    output_path |-> OutputPath(sampled_video, audio_file, now),
                    cleared |-> cleared \/ recleared,
                    seed_arg |-> <<>>, outcome |-> "pending"])
    /\ combination_count' = combination_count + 1
    /\ pc' = "run"
    /\ UNCHANGED <<argv, fs, args, video_files, audio_files,
                   output_dir_created, total_combinations, successful, failed,
                   audio_files_to_process, idx, exception, summary_printed>>

\* lines 199-227: run_inference for the job, the counters, the progress lines
RunInference ==
    /\ pc = "run"
    /\ \E seed \in JobSeeds(args.random_seed) : \E outcome \in Outcomes :
         LET r == RunResult(outcome)
             c == CountResult(r.success, successful, failed)
             n == Len(jobs)
         IN  /\ jobs' = [jobs EXCEPT ![n].seed_arg = Str(seed),
                                     ![n].outcome = outcome]
             /\ IF r.raised # "None"
                THEN /\ exception' = r.raised
                     /\ pc' = "crashed"
                     /\ UNCHANGED <<successful, failed, idx>>
                ELSE /\ successful' = c.successful
                     /\ failed' = c.failed
                     \* lines 219 and 224 divide by these
                     /\ IF combination_count = 0 \/ total_combinations = 0
                        THEN /\ exception' = "ZeroDivisionError"
                             /\ pc' = "crashed"
                             /\ UNCHANGED idx
                        ELSE /\ idx' = idx + 1
                             /\ pc' = "loop"
                             /\ UNCHANGED exception
    /\ UNCHANGED <<argv, fs, args, video_files, audio_files,
                   output_dir_created, total_combinations, combination_count,
                   audio_files_to_process, used_videos, clock,
                   summary_printed>>

\* lines 229-241
Summary ==
    /\ pc = "loop"
    /\ idx = Len(audio_files_to_process)
    /\ summary_printed' = TRUE
    \* lines 237 and 239 divide by combination_count
    /\ IF combination_count = 0
       THEN exception' = "ZeroDivisionError" /\ pc' = "crashed"
       ELSE pc' = "done" /\ UNCHANGED exception
    /\ UNCHANGED <<argv, fs, args, video_files, audio_files,
                   output_dir_created, total_combinations, successful, failed,
                   combination_count, audio_files_to_process, used_videos,
                   idx, jobs, clock>>

Next == ParseArgs \/ Scan \/ Plan \/ SelectVideo \/ RunInference \/ Summary

Spec == Init /\ [][Next]_vars

(* The loop of main for every value the args namespace can hold: the run   *)
(* starts after parse_args, with allow_repeat_videos either way.           *)
Namespaces ==
    [max_combinations : {None} \cup {Some(n) : n \in (0 - 1)..MaxCombinations},
     random_seed : {None},
     allow_repeat_videos : BOOLEAN]

InitNamespace ==
    /\ args \in Namespaces
    /\ argv = [max_combinations |-> args.max_combinations,
               random_seed |-> args.random_seed,
               allow_repeat_videos_flag |-> FALSE]
    /\ fs \in FileSystems
    /\ pc = "scan"
    /\ InitRest

NextNamespace == Scan \/ Plan \/ SelectVideo \/ RunInference \/ Summary

NamespaceSpec == InitNamespace /\ [][NextNamespace]_vars

(* ------------------------- claim vocabulary ---------------------------- *)
\* the lists main holds once the directories are scanned
Scanned == pc \notin {"parse", "scan"}
DiscoveredVideos == video_files
DiscoveredAudios == audio_files
NumJobs == Len(jobs)
NumOutcome(S) == Cardinality({i \in 1..NumJobs : jobs[i].outcome \in S})
Terminated == pc \in {"returned", "crashed", "done"}
Planned == pc \in {"loop", "run", "done"}
\* the --max_combinations value is set, positive and below the audio count
CapTruncates ==
    /\ argv.max_combinations # None
    /\ Val(argv.max_combinations) > 0
    /\ Val(argv.max_combinations) < Len(DiscoveredAudios)
NoInputFilesFound == DiscoveredVideos = <<>> \/ DiscoveredAudios = <<>>
\* the job count the claim C2 names
ExpectedJobs ==
    IF CapTruncates THEN Val(argv.max_combinations) ELSE Len(DiscoveredAudios)
\* min(len(audio_files), max_combinations or infinity)
JobLimit ==
    IF Truthy(argv.max_combinations)
    THEN Min(Len(DiscoveredAudios), Val(argv.max_combinations))
    ELSE Len(DiscoveredAudios)

\* int(s) for a decimal string as the external command reads --seed
DigitValue(c) == (CHOOSE i \in 1..10 : DigitChars[i] = c) - 1
RECURSIVE ParseNat(_)
ParseNat(s) == IF s = <<>> THEN 0
               ELSE 10 * ParseNat(SubSeq(s, 1, Len(s) - 1)) + DigitValue(s[Len(s)])
ParseInt(s) == IF s # <<>> /\ Head(s) = "-" THEN 0 - ParseNat(Tail(s))
               ELSE ParseNat(s)

(* ------------------------------ claims --------------------------------- *)

\* C1: a job whose command exits nonzero or cannot be launched is counted
\* as failed and no exception leaves the job: the run goes on.
C1_JobErrorsRecovered ==
    /\ exception # "FileNotFoundError"
    /\ failed = NumOutcome({"exit_nonzero", "cannot_launch"})

CycleStart ==
    IF \E i \in 1..NumJobs : jobs[i].cleared
    THEN CHOOSE i \in 1..NumJobs :
            jobs[i].cleared /\ \A j \in (i + 1)..NumJobs : ~jobs[j].cleared
    ELSE 1
C4_NoRepeatCycles ==
    ~args.allow_repeat_videos =>
      LET V == Len(video_files) IN
      /\ used_videos \subseteq Range(video_files)
      /\ used_videos = {jobs[i].video : i \in CycleStart..NumJobs}
      /\ Cardinality(used_videos) = IF NumJobs = 0 THEN 0
                                    ELSE NumJobs - CycleStart + 1
      /\ \A i \in 1..NumJobs : jobs[i].cleared <=> (i > 1 /\ (i - 1) % V = 0)
      /\ \A i, j \in 1..NumJobs :
            (i # j /\ (i - 1) \div V = (j - 1) \div V)
               => jobs[i].video # jobs[j].video

C4_Witness ==
    /\ ~args.allow_repeat_videos
    /\ Len(video_files) = 2
    /\ NumJobs = 3
    /\ jobs[3].cleared
    /\ used_videos = {jobs[3].video}

\* C5: the run's command line, with --allow_repeat_videos given or left
\* out, parses to allow_repeat_videos = False one way (the no-repeat
\* policy) and to True the other way (independent draws).
C5_BothPoliciesSelectable ==
    LET parsed(flag) ==
            parse_args([argv EXCEPT !.allow_repeat_videos_flag = flag])
    IN  /\ \E flag \in BOOLEAN : ~parsed(flag).allow_repeat_videos
        /\ \E flag \in BOOLEAN : parsed(flag).allow_repeat_videos

\* C6: two distinct jobs of a run never get the same output path.
C6_OutputPathsUnique ==
    \A i, j \in 1..NumJobs :
        i # j => jobs[i].output_path # jobs[j].output_path

\* C7: with an empty video list or an empty audio list (a missing directory
\* included) the command is never run, no counter moves, the summary is not
\* printed and the output directory is not created.
C7_EarlyExit ==
    /\ (Scanned /\ ~fs.video_dir.exists) => video_files = <<>>
    /\ (Scanned /\ ~fs.audio_dir.exists) => audio_files = <<>>
    /\ (Scanned /\ NoInputFilesFound) =>
        /\ jobs = <<>>
        /\ combination_count = 0
        /\ successful = 0
        /\ failed = 0
        /\ ~summary_printed
        /\ ~output_dir_created
        /\ exception = "None"
        /\ pc = "returned"

C7_Witness ==
    /\ pc = "returned"
    /\ ~fs.audio_dir.exists
    /\ video_files # <<>>

\* C8: no run raises a division error: a run that prints the final summary
\* has processed at least one job.
C8_NoDivisionByZero ==
    /\ exception # "ZeroDivisionError"
    /\ summary_printed => (combination_count > 0 /\ pc = "done")

C8_Witness ==
    /\ pc = "done"
    /\ args.max_combinations = Some(0)
    /\ combination_count = 3

\* C9: with --random_seed given (0 included) every job's --seed argument
\* reads back as that value; without it every job's seed is in 1..999999.
C9_JobSeed ==
    \A i \in 1..NumJobs :
        jobs[i].outcome # "pending" =>
            IF args.random_seed # None
            THEN ParseInt(jobs[i].seed_arg) = Val(args.random_seed)
            ELSE ParseInt(jobs[i].seed_arg) \in 1..999999

C9_Witness ==
    /\ pc = "done"
    /\ args.random_seed = Some(0)
    /\ NumJobs = 2
    /\ jobs[1].seed_arg = <<"0">>
    /\ jobs[2].seed_arg = <<"0">>

\* C10: every completed job moves exactly one of successful and failed, so
\* successful + failed = combination_count after each iteration, and
\* combination_count is the number of planned jobs at the final summary; a
\* nonzero exit raises nothing; while every job so far exited nonzero the
\* run always has a next step until the summary, which it reaches with
\* successful = 0 and failed = N.
C10_Counters ==
    /\ successful = NumOutcome({"exit_zero"})
    /\ failed = NumOutcome({"exit_nonzero"})
    /\ pc \in {"loop", "done"} => successful + failed = combination_count
    /\ pc = "run" => successful + failed + 1 = combination_count
    /\ pc = "done" => /\ combination_count = Len(audio_files_to_process)
                      /\ combination_count = total_combinations
    /\ (NumJobs > 0 /\ jobs[NumJobs].outcome = "exit_nonzero")
          => (exception = "None" /\ pc \in {"loop", "done"})
    /\ (pc = "done" /\ NumOutcome({"exit_nonzero"}) = NumJobs)
          => (successful = 0 /\ failed = Len(audio_files_to_process))
    /\ (pc \in {"loop", "run"}
          /\ NumOutcome({"exit_nonzero", "pending"}) = NumJobs) => ENABLED Next

C10_Witness ==
    /\ pc = "done"
    /\ NumJobs = 3
    /\ NumOutcome({"exit_nonzero"}) = 3
    /\ failed = 3

====
